---------------------------- MODULE Spec2Model ----------------------------
(***************************************************************************)
(* The sample time server, app/main.py: a Flask application with a single  *)
(* route, `/`, whose view get_time returns str(datetime.datetime.now()).   *)
(*                                                                         *)
(* The state is the host clock, each worker's request in flight, and the   *)
(* two responses sent most recently.  The rendering of a datetime and the  *)
(* routing of a request are operators; a request is handled in the steps   *)
(* Accept (routing), GetTime (the view) and Respond.                       *)
(***************************************************************************)
EXTENDS Integers, Sequences, FiniteSets

VARIABLES
    clock,      \* the host's local time, what datetime.datetime.now() returns
    url_map,    \* the application's routing table (rule -> endpoint)
    pc,         \* per worker: "idle", "view", "respond" or "error"
    req,        \* per worker: the request being handled
    arrival,    \* per worker: the clock when the request arrived
    reading,    \* per worker: <<>> or <<the clock value get_time read>>
    ret,        \* per worker: the string get_time returned
    calls,      \* per worker: how often get_time was invoked for the request
    back,       \* per worker: the clock went back since the request arrived
    steps,      \* how often the clock went back so far
    last,       \* the response sent most recently (<<>> or <<response>>)
    prev        \* the response sent before `last` (<<>> or <<summary>>)

vars ==
    <<clock, url_map, pc, req, arrival, reading, ret, calls, back, steps,
      last, prev>>

---------------------------------------------------------------------------
(* Bounds and input sets.                                                  *)

\* Worker threads of the concurrent specification.
NumThreads == 2

\* How often the host clock goes back in a behaviour (the end of daylight
\* saving time, a clock that is set).
MaxStepsBack == 1

\* A naive local datetime, the value of datetime.datetime.now().
DT(y, mo, d, h, mi, s, us) ==
    [year |-> y, month |-> mo, day |-> d, hour |-> h, minute |-> mi,
     second |-> s, microsecond |-> us]

\* The clock readings of the specifications of the routing and of the
\* workers: two instants of one second, without microseconds (no fractional
\* part is rendered) and with, and the second after.
Readings ==
    {DT(2024, 9, 9, 23, 59, 9, us) : us \in {0, 5}}
        \cup {DT(2024, 9, 9, 23, 59, 10, 0)}

\* The clock readings of the specification of the clock's rendering: months
\* and seconds of one and of two digits, microseconds that are zero, that
\* are rendered with leading zeros, and that fill the six digits.
Months == {9, 10}
Micros == {0, 5, 100000}
WideReadings ==
    {DT(2024, mo, 9, 23, 59, 9, us) : mo \in Months, us \in Micros}
        \cup {DT(2024, 9, 9, 23, 59, 10, 0)}

\* The clock readings of the concurrent specification: two instants of one
\* second.
ConcReadings == {DT(2024, 9, 9, 23, 59, 9, us) : us \in {0, 5}}

\* The first reading of every behaviour.
StartTime == DT(2024, 9, 9, 23, 59, 9, 0)

\* A path is the sequence of its segments: <<>> is `/`.
RootPath == <<>>
Paths == {RootPath, <<"time">>, <<"static", "app.js">>}
Methods == {"GET", "HEAD", "POST", "OPTIONS"}

\* What a client may add to a request: a query string, a header, a body.
Plain == [query |-> "", header |-> "", body |-> ""]

Extras ==
    {Plain,
     [query |-> "x=1", header |-> "", body |-> ""],
     [query |-> "", header |-> "X-Time: 0", body |-> ""],
     [query |-> "", header |-> "", body |-> "1999-01-01 00:00:00"]}

Request(m, p, e) ==
    [method |-> m, path |-> p, query |-> e.query, header |-> e.header,
     body |-> e.body]

\* GET `/` with every extra, and every method on every path without one.
TimeRequests == {Request("GET", RootPath, e) : e \in Extras}
ConcRequests == {Request("GET", RootPath, Plain)}
Requests == TimeRequests \cup {Request(m, p, Plain) : m \in Methods, p \in Paths}

NoRequest == Request("", RootPath, Plain)

---------------------------------------------------------------------------
(* str(datetime): datetime.__str__ is isoformat(sep=' ').                  *)

Digit(d) == <<"0", "1", "2", "3", "4", "5", "6", "7", "8", "9">>[d + 1]

\* The decimal digits of n >= 0, without padding.
RECURSIVE Dec(_)
Dec(n) == IF n < 10 THEN <<Digit(n)>> ELSE Dec(n \div 10) \o <<Digit(n % 10)>>

RECURSIVE Zeros(_)
Zeros(k) == IF k <= 0 THEN <<>> ELSE <<"0">> \o Zeros(k - 1)

\* Mutant: "%d" % n, the field is not padded.
PadNone(n, width) == Dec(n)

\* "%0<width>d" % n
Pad(n, width) == Zeros(width - Len(Dec(n))) \o Dec(n)

\* "%04d-%02d-%02d" % (year, month, day)
FormatDate(dt) ==
    Pad(dt.year, 4) \o <<"-">> \o Pad(dt.month, 2) \o <<"-">> \o Pad(dt.day, 2)

\* Mutant: timespec 'microseconds', the microseconds are always rendered.
FormatTimeAlways(dt) ==
    Pad(dt.hour, 2) \o <<":">> \o Pad(dt.minute, 2) \o <<":">>
        \o Pad(dt.second, 2) \o <<".">> \o Pad(dt.microsecond, 6)

\* _format_time with timespec 'auto': the microseconds are rendered only
\* when they are not zero.
FormatTime(dt) ==
    Pad(dt.hour, 2) \o <<":">> \o Pad(dt.minute, 2) \o <<":">>
        \o Pad(dt.second, 2)
        \o (IF dt.microsecond # 0 THEN <<".">> \o Pad(dt.microsecond, 6)
            ELSE <<>>)

Str(dt) == FormatDate(dt) \o <<" ">> \o FormatTime(dt)

\* Mutant: the time is read once, when the module is loaded.
NowAtStartup == StartTime

\* datetime.datetime.now(): the host clock at the moment of the call.
Now == clock

\* The view: return str(datetime.datetime.now()), for the reading `now`.
get_time(now) == Str(now)

---------------------------------------------------------------------------
(* Orders: datetimes compare field by field, strings by code point.        *)

Fields(dt) ==
    <<dt.year, dt.month, dt.day, dt.hour, dt.minute, dt.second,
      dt.microsecond>>

RECURSIVE TupleLeq(_, _)
TupleLeq(a, b) ==
    IF a = <<>> THEN TRUE
    ELSE IF Head(a) # Head(b) THEN Head(a) < Head(b)
    ELSE TupleLeq(Tail(a), Tail(b))

DtLeq(a, b) == TupleLeq(Fields(a), Fields(b))

\* The code point of a character of a rendered datetime.
Ord(c) ==
    CASE c = " " -> 32
      [] c = "-" -> 45
      [] c = "." -> 46
      [] c = ":" -> 58
      [] OTHER -> 47 + CHOOSE i \in 1..10 : Digit(i - 1) = c

\* a <= b for two strings, as Python compares them.
RECURSIVE LexLeq(_, _)
LexLeq(a, b) ==
    IF a = <<>> THEN TRUE
    ELSE IF b = <<>> THEN FALSE
    ELSE IF Head(a) # Head(b) THEN Ord(Head(a)) < Ord(Head(b))
    ELSE LexLeq(Tail(a), Tail(b))

---------------------------------------------------------------------------
(* Routing.  Flask(__name__) registers the rule /static/<path:filename>    *)
(* (endpoint "static"); @app.route('/') registers `/` for get_time.  A     *)
(* rule without explicit methods allows GET, and with it HEAD and the      *)
(* automatic OPTIONS.                                                      *)

\* Mutant: @app.route('/', methods=['POST']).
UrlMapPostOnly ==
    {[rule |-> "/", endpoint |-> "get_time", methods |-> {"POST", "OPTIONS"}],
     [rule |-> "/static/<path:filename>", endpoint |-> "static",
      methods |-> {"GET", "HEAD", "OPTIONS"}]}

\* Mutant: @app.route('/', methods=['GET', 'POST']).
UrlMapWithPost ==
    {[rule |-> "/", endpoint |-> "get_time",
      methods |-> {"GET", "HEAD", "POST", "OPTIONS"}],
     [rule |-> "/static/<path:filename>", endpoint |-> "static",
      methods |-> {"GET", "HEAD", "OPTIONS"}]}

UrlMap ==
    {[rule |-> "/", endpoint |-> "get_time",
      methods |-> {"GET", "HEAD", "OPTIONS"}],
     [rule |-> "/static/<path:filename>", endpoint |-> "static",
      methods |-> {"GET", "HEAD", "OPTIONS"}]}

\* Mutant: @app.route('/<path:p>'), the view's rule matches every path.
MatchesAny(rule, path) ==
    \/ rule.rule = "/"
    \/ rule.rule = "/static/<path:filename>"
         /\ Len(path) >= 2 /\ path[1] = "static"

\* Whether a rule matches a path.
Matches(rule, path) ==
    \/ rule.rule = "/" /\ path = RootPath
    \/ rule.rule = "/static/<path:filename>"
         /\ Len(path) >= 2 /\ path[1] = "static"

\* What the framework does with a request: call the view, or answer by
\* itself with a status.
Route(map, r) ==
    LET hit == {u \in map : Matches(u, r.path)} IN
    IF hit = {} THEN [do |-> "status", status |-> 404]
    ELSE LET u == CHOOSE x \in hit : TRUE IN
         IF r.method \notin u.methods THEN [do |-> "status", status |-> 405]
         ELSE IF r.method = "OPTIONS" THEN [do |-> "status", status |-> 200]
         ELSE IF u.endpoint = "get_time" THEN [do |-> "view", status |-> 200]
         \* send_static_file: the application has no static folder
         ELSE [do |-> "status", status |-> 404]

\* The body of a response the framework makes by itself: the default page
\* of an error status, named by its title, and nothing for OPTIONS.
DefaultBody(status) ==
    CASE status = 404 -> <<"Not Found">>
      [] status = 405 -> <<"Method Not Allowed">>
      [] status = 500 -> <<"Internal Server Error">>
      [] OTHER -> <<>>

---------------------------------------------------------------------------
(* The responses.                                                          *)

Response(w, status, body) ==
    [req |-> req[w], arrival |-> arrival[w], reading |-> reading[w],
     sent |-> clock, status |-> status, body |-> body, calls |-> calls[w],
     raised |-> (pc[w] = "error"), back |-> back[w]]

\* What is kept of the response sent before the last one.
Summary(resp) ==
    [req |-> resp.req, reading |-> resp.reading, status |-> resp.status,
     body |-> resp.body, raised |-> resp.raised]

\* Mutant: the view answers with the request's body when there is one.
ViewResponseEcho(w, text) ==
    Response(w, 200, IF req[w].method = "HEAD" THEN <<>>
                     ELSE IF req[w].body # "" THEN <<req[w].body>>
                     ELSE text)

\* The response to a request whose view returned `text`: 200, and no body
\* for HEAD.
ViewResponse(w, text) ==
    Response(w, 200, IF req[w].method = "HEAD" THEN <<>> ELSE text)

Send(w, resp) ==
    /\ last' = <<resp>>
    /\ prev' = IF last = <<>> THEN <<>> ELSE <<Summary(last[1])>>
    /\ pc' = [pc EXCEPT ![w] = "idle"]
    /\ req' = [req EXCEPT ![w] = NoRequest]
    /\ arrival' = [arrival EXCEPT ![w] = StartTime]
    /\ reading' = [reading EXCEPT ![w] = <<>>]
    /\ ret' = [ret EXCEPT ![w] = <<>>]
    /\ calls' = [calls EXCEPT ![w] = 0]
    /\ back' = [back EXCEPT ![w] = FALSE]

---------------------------------------------------------------------------
(* The actions.                                                            *)

InitFor(workers) ==
    /\ clock = StartTime
    /\ url_map = UrlMap
    /\ pc = [w \in workers |-> "idle"]
    /\ req = [w \in workers |-> NoRequest]
    /\ arrival = [w \in workers |-> StartTime]
    /\ reading = [w \in workers |-> <<>>]
    /\ ret = [w \in workers |-> <<>>]
    /\ calls = [w \in workers |-> 0]
    /\ back = [w \in workers |-> FALSE]
    /\ steps = 0
    /\ last = <<>>
    /\ prev = <<>>

\* The host clock advances to t.
Tick(t) ==
    /\ DtLeq(clock, t) /\ t # clock
    /\ clock' = t
    /\ UNCHANGED <<url_map, pc, req, arrival, reading, ret, calls, back,
                   steps, last, prev>>

\* The host clock goes back to t: local time at the end of daylight saving
\* time, or a clock that is set.  Every request being handled sees it.
StepBack(t) ==
    /\ steps < MaxStepsBack
    /\ DtLeq(t, clock) /\ t # clock
    /\ clock' = t
    /\ steps' = steps + 1
    /\ back' = [w \in DOMAIN back |-> back[w] \/ pc[w] # "idle"]
    /\ UNCHANGED <<url_map, pc, req, arrival, reading, ret, calls, last, prev>>

\* A request arrives at an idle worker and is routed: it is passed to the
\* view, or the framework answers it.
Accept(w, r) ==
    /\ pc[w] = "idle"
    /\ LET to == Route(url_map, r) IN
       IF to.do = "view"
       THEN /\ pc' = [pc EXCEPT ![w] = "view"]
            /\ req' = [req EXCEPT ![w] = r]
            /\ arrival' = [arrival EXCEPT ![w] = clock]
            /\ UNCHANGED <<reading, ret, calls, back, last, prev>>
       ELSE Send(w, [req |-> r, arrival |-> clock, reading |-> <<>>,
                     sent |-> clock, status |-> to.status,
                     body |-> DefaultBody(to.status), calls |-> 0,
                     raised |-> FALSE, back |-> FALSE])
    /\ UNCHANGED <<clock, url_map, steps>>

\* Mutant: the view renders into a buffer all the workers share.
GetTimeShared(w) ==
    /\ pc[w] = "view"
    /\ pc' = [pc EXCEPT ![w] = "respond"]
    /\ reading' = [reading EXCEPT ![w] = <<Now>>]
    /\ ret' = [v \in DOMAIN ret |-> get_time(Now)]
    /\ calls' = [calls EXCEPT ![w] = calls[w] + 1]
    /\ UNCHANGED <<clock, url_map, req, arrival, back, steps, last, prev>>

\* The view runs: it reads the clock and renders the reading.
GetTime(w) ==
    /\ pc[w] = "view"
    /\ pc' = [pc EXCEPT ![w] = "respond"]
    /\ reading' = [reading EXCEPT ![w] = <<Now>>]
    /\ ret' = [ret EXCEPT ![w] = get_time(Now)]
    /\ calls' = [calls EXCEPT ![w] = calls[w] + 1]
    /\ UNCHANGED <<clock, url_map, req, arrival, back, steps, last, prev>>

\* The view raises (the clock read or the formatting fails): nothing in
\* the application catches it.
GetTimeRaises(w) ==
    /\ pc[w] = "view"
    /\ pc' = [pc EXCEPT ![w] = "error"]
    /\ calls' = [calls EXCEPT ![w] = calls[w] + 1]
    /\ UNCHANGED <<clock, url_map, req, arrival, reading, ret, back, steps,
                   last, prev>>

\* The view's return value is sent as the response.
Respond(w) ==
    /\ pc[w] = "respond"
    /\ Send(w, ViewResponse(w, ret[w]))
    /\ UNCHANGED <<clock, url_map, steps>>

\* Mutant: the view catches the exception and returns an empty text.
HandleExceptionFallback(w) ==
    /\ pc[w] = "error"
    /\ Send(w, Response(w, 200, <<>>))
    /\ UNCHANGED <<clock, url_map, steps>>

\* Mutant: after an exception the application drops the rule of the view.
HandleExceptionAndBreak(w) ==
    /\ pc[w] = "error"
    /\ Send(w, Response(w, 500, DefaultBody(500)))
    /\ url_map' = {u \in url_map : u.endpoint # "get_time"}
    /\ UNCHANGED <<clock, steps>>

\* The framework answers a request whose view raised.
HandleException(w) ==
    /\ pc[w] = "error"
    /\ Send(w, Response(w, 500, DefaultBody(500)))
    /\ UNCHANGED <<clock, url_map, steps>>

---------------------------------------------------------------------------
(* The specifications.                                                     *)

Workers == DOMAIN pc

Init == InitFor({1})

Next ==
    \/ \E t \in Readings : Tick(t)
    \/ \E t \in Readings : StepBack(t)
    \/ \E w \in Workers, r \in Requests : Accept(w, r)
    \/ \E w \in Workers : GetTime(w)
    \/ \E w \in Workers : Respond(w)

\* One request at a time, a clock that works.
Spec == Init /\ [][Next]_vars

FaultNext ==
    \/ Next
    \/ \E w \in Workers : GetTimeRaises(w)
    \/ \E w \in Workers : HandleException(w)

\* One request at a time, and a view that may raise.
FaultSpec == Init /\ [][FaultNext]_vars

ClockNext ==
    \/ \E t \in WideReadings : Tick(t)
    \/ \E t \in WideReadings : StepBack(t)
    \/ \E w \in Workers : Accept(w, Request("GET", RootPath, Plain))
    \/ \E w \in Workers : GetTime(w)
    \/ \E w \in Workers : Respond(w)

\* One GET `/` at a time, over the wide set of clock readings.
ClockSpec == Init /\ [][ClockNext]_vars

ConcInit == InitFor(1..NumThreads)

ConcNext ==
    \/ \E t \in ConcReadings : Tick(t)
    \/ \E t \in ConcReadings : StepBack(t)
    \/ \E w \in Workers, r \in ConcRequests : Accept(w, r)
    \/ \E w \in Workers : GetTime(w)
    \/ \E w \in Workers : Respond(w)

\* One thread per request, GET `/` requests only.
ConcSpec == ConcInit /\ [][ConcNext]_vars

---------------------------------------------------------------------------
(* The properties.                                                         *)

\* The responses the state remembers.
Sent == {last[i] : i \in DOMAIN last}
SentBefore == {prev[i] : i \in DOMAIN prev}

IsGetRoot(r) == r.method = "GET" /\ r.path = RootPath

\* A GET `/` response whose view returned.
Timed(x) == IsGetRoot(x.req) /\ ~x.raised /\ x.reading # <<>>

\* C1: every GET request to `/` is answered with status 200, whatever
\* requests were handled before it.
C1_GetRootIs200 ==
    \A x \in Sent \cup SentBefore : IsGetRoot(x.req) => x.status = 200

\* A GET `/` answered with 200 right after a request the framework refused.
C1_Witness ==
    \E x \in Sent, y \in SentBefore :
        /\ IsGetRoot(x.req) /\ x.status = 200
        /\ y.status \in {404, 405}

\* C2: of two GET `/` responses whose clock readings are t1 <= t2, the body
\* of the first is lexicographically less than or equal to the body of the
\* second, also when a reading has no microseconds.
C2_BodiesNonDecreasing ==
    \A x \in Sent, y \in SentBefore :
        (Timed(x) /\ Timed(y) /\ DtLeq(y.reading[1], x.reading[1]))
            => LexLeq(y.body, x.body)

\* A reading without microseconds that follows one with microseconds.
C2_Witness ==
    \E x \in Sent, y \in SentBefore :
        /\ Timed(x) /\ Timed(y)
        /\ y.reading[1].microsecond # 0
        /\ x.reading[1].microsecond = 0
        /\ x.reading[1].month > y.reading[1].month
        /\ LexLeq(y.body, x.body) /\ y.body # x.body

IsDigit(c) == c \in {Digit(d) : d \in 0..9}

\* The number written in characters i..j of b.
RECURSIVE NumAt(_, _, _)
NumAt(b, i, j) ==
    IF j < i THEN 0
    ELSE 10 * NumAt(b, i, j - 1) + (CHOOSE d \in 0..9 : Digit(d) = b[j])

DigitsAt(b, S) == \A i \in S : i <= Len(b) /\ IsDigit(b[i])

\* b reads year-month-day hour:minute:second in its first 19 characters,
\* and these are the fields of dt.
ShapeSeconds(b, dt) ==
    /\ Len(b) >= 19
    /\ DigitsAt(b, (1..4) \cup {6, 7, 9, 10, 12, 13, 15, 16, 18, 19})
    /\ b[5] = "-" /\ b[8] = "-" /\ b[11] = " " /\ b[14] = ":" /\ b[17] = ":"
    /\ NumAt(b, 1, 4) = dt.year /\ NumAt(b, 6, 7) = dt.month
    /\ NumAt(b, 9, 10) = dt.day /\ NumAt(b, 12, 13) = dt.hour
    /\ NumAt(b, 15, 16) = dt.minute /\ NumAt(b, 18, 19) = dt.second

\* b ends with .microsecond, in six digits.
ShapeMicros(b, dt) ==
    /\ Len(b) = 26 /\ b[20] = "."
    /\ DigitsAt(b, 21..26)
    /\ NumAt(b, 21, 26) = dt.microsecond

\* C3, as claimed: the body of every GET `/` response has all seven fields,
\* year-month-day hour:minute:second.microsecond.
C3_AlwaysSevenFields ==
    \A x \in Sent :
        Timed(x) => ShapeSeconds(x.body, x.reading[1])
                        /\ ShapeMicros(x.body, x.reading[1])

\* C3, amended: the body is year-month-day hour:minute:second, followed by
\* .microsecond exactly when the microsecond of the reading is not zero.
C3_MicrosUnlessZero ==
    \A x \in Sent :
        Timed(x) =>
            /\ ShapeSeconds(x.body, x.reading[1])
            /\ IF x.reading[1].microsecond # 0
               THEN ShapeMicros(x.body, x.reading[1])
               ELSE Len(x.body) = 19

\* A body without the fractional part, and before it one with it.
C3_Witness ==
    \E x \in Sent, y \in SentBefore :
        /\ Timed(x) /\ x.reading[1].microsecond = 0 /\ Len(x.body) = 19
        /\ Timed(y) /\ y.reading[1].microsecond # 0 /\ Len(y.body) = 26

DtLess(a, b) == DtLeq(a, b) /\ a # b

\* C4, as claimed: the body of a GET `/` response renders a clock value
\* that is not earlier than the clock at the arrival of the request and not
\* later than the clock at its response.
C4_WithinArrivalAndSent ==
    \A x \in Sent :
        Timed(x) =>
            /\ DtLeq(x.arrival, x.reading[1]) /\ DtLeq(x.reading[1], x.sent)
            /\ x.body = Str(x.reading[1])

\* C4, amended: the body of a GET `/` response renders the clock value read
\* while the request was handled; unless the clock went back meanwhile, it
\* is not earlier than the clock at the arrival and not later than the
\* clock at the response.
C4_ReadDuringRequest ==
    /\ \A x \in Sent :
          Timed(x) =>
            /\ x.body = Str(x.reading[1])
            /\ ~x.back =>
                 /\ DtLeq(x.arrival, x.reading[1])
                 /\ DtLeq(x.reading[1], x.sent)
    /\ \A w \in Workers :
          pc[w] = "respond" =>
            /\ ret[w] = Str(reading[w][1])
            /\ ~back[w] =>
                 /\ DtLeq(arrival[w], reading[w][1])
                 /\ DtLeq(reading[w][1], clock)

\* The clock moved on between arrival, reading and response, and the
\* request before was answered with an earlier reading.
C4_Witness ==
    \E x \in Sent, y \in SentBefore :
        /\ Timed(x) /\ Timed(y) /\ ~x.back
        /\ DtLess(y.reading[1], x.arrival)
        /\ DtLess(x.arrival, x.reading[1])
        /\ DtLess(x.reading[1], x.sent)

UnderStatic(path) == Len(path) >= 2 /\ path[1] = "static"

\* C5, as claimed: a request to a path other than `/` is answered with a
\* status other than 200, whatever its method, and get_time is not invoked.
C5_OtherPathNever200 ==
    \A x \in Sent :
        x.req.path # RootPath => x.status # 200 /\ x.calls = 0

\* C5, amended: a request to a path other than `/` never invokes get_time;
\* it is answered with 404, but under /static/ a method other than GET,
\* HEAD and OPTIONS is answered with 405 and OPTIONS with 200.
C5_OtherPathNotServed ==
    \A x \in Sent :
        x.req.path # RootPath =>
            /\ x.calls = 0 /\ x.reading = <<>>
            /\ x.status =
                 IF ~UnderStatic(x.req.path) THEN 404
                 ELSE IF x.req.method = "OPTIONS" THEN 200
                 ELSE IF x.req.method \in {"GET", "HEAD"} THEN 404
                 ELSE 405

\* An unknown path answered with 404 after `/` was served with 200.
C5_Witness ==
    \E x \in Sent, y \in SentBefore :
        /\ x.req.path = <<"time">> /\ x.status = 404 /\ x.calls = 0
        /\ Timed(y) /\ y.status = 200

\* C6: a POST to `/` is answered with 405 or 404, never with 200, and
\* get_time is not invoked for it.
C6_PostRootRefused ==
    \A x \in Sent :
        (x.req.method = "POST" /\ x.req.path = RootPath) =>
            /\ x.status \in {404, 405}
            /\ x.calls = 0 /\ x.reading = <<>>

\* A POST to `/` answered with 405 after a GET `/` answered with 200.
C6_Witness ==
    \E x \in Sent, y \in SentBefore :
        /\ x.req.method = "POST" /\ x.req.path = RootPath /\ x.status = 405
        /\ Timed(y) /\ y.status = 200

\* C7: a request whose view raised is answered with 500 and the default
\* error page, not with 200 or a timestamp; the view was invoked once.
C7_RaiseIs500 ==
    /\ \A x \in Sent :
          x.raised =>
            /\ x.status = 500 /\ x.body = DefaultBody(500)
            /\ x.reading = <<>> /\ x.calls = 1
    /\ \A w \in Workers : pc[w] = "error" => calls[w] = 1 /\ ret[w] = <<>>

\* A GET `/` whose view raised, answered after the clock moved on.
C7_Witness ==
    \E x \in Sent :
        /\ IsGetRoot(x.req) /\ x.raised /\ x.status = 500
        /\ DtLess(x.arrival, x.sent)

\* C8: two GET `/` requests answered from the same clock reading get the
\* same status and the same body, whatever query string, header or body
\* each carried.
C8_OnlyTheClock ==
    \A x \in Sent, y \in SentBefore :
        (Timed(x) /\ Timed(y) /\ x.reading = y.reading)
            => x.status = y.status /\ x.body = y.body

\* The same reading answered to a request with a body and to one with a
\* query string.
C8_Witness ==
    \E x \in Sent, y \in SentBefore :
        /\ Timed(x) /\ Timed(y) /\ x.reading = y.reading
        /\ x.req.body # "" /\ y.req.query # ""
        /\ x.body = y.body

\* The answer of the application as loaded to request r, when the view
\* read `rd` or raised.
FreshStatus(r, raised) ==
    IF raised THEN 500 ELSE Route(UrlMap, r).status

FreshBody(r, rd, raised) ==
    IF raised THEN DefaultBody(500)
    ELSE IF Route(UrlMap, r).do = "view"
         THEN (IF r.method = "HEAD" THEN <<>> ELSE Str(rd[1]))
    ELSE DefaultBody(Route(UrlMap, r).status)

\* C9: handling a request changes no state of the server: the routing
\* table stays as loaded, an idle worker keeps nothing of its request,
\* and every answer is the one the freshly started server gives.
C9_NoStateChange ==
    /\ url_map = UrlMap
    /\ \A w \in Workers :
          pc[w] = "idle" => reading[w] = <<>> /\ ret[w] = <<>> /\ calls[w] = 0
    /\ \A x \in Sent :
          /\ x.status = FreshStatus(x.req, x.raised)
          /\ x.body = FreshBody(x.req, x.reading, x.raised)

\* A GET `/` answered with 200 right after a request that failed with 500.
C9_Witness ==
    \E x \in Sent, y \in SentBefore :
        /\ y.raised /\ y.status = 500
        /\ Timed(x) /\ x.status = 200 /\ x.body = Str(x.reading[1])

\* C10, as claimed: with GET `/` requests handled concurrently, every
\* response is 200 with the rendering of one clock value, which is not
\* earlier than the clock at the arrival of its own request and not later
\* than the clock at its own response.
C10_WithinOwnInterval ==
    \A x \in Sent :
        /\ x.status = 200 /\ x.reading # <<>>
        /\ x.body = Str(x.reading[1])
        /\ DtLeq(x.arrival, x.reading[1]) /\ DtLeq(x.reading[1], x.sent)

\* C10, amended: with GET `/` requests handled concurrently, every response
\* is 200 with the rendering of the one clock value its own request read;
\* unless the clock went back while the request was handled, the value is
\* not earlier than the clock at its arrival and not later than the clock
\* at its response.
C10_ConcurrentResponses ==
    /\ \A x \in Sent :
          /\ x.status = 200 /\ x.reading # <<>>
          /\ x.body = Str(x.reading[1])
          /\ ~x.back =>
               /\ DtLeq(x.arrival, x.reading[1])
               /\ DtLeq(x.reading[1], x.sent)
    /\ \A w \in Workers :
          pc[w] = "respond" =>
            /\ ret[w] = Str(reading[w][1])
            /\ ~back[w] =>
                 /\ DtLeq(arrival[w], reading[w][1])
                 /\ DtLeq(reading[w][1], clock)

\* A response sent while another request, which arrived before and read a
\* different clock value, is still being handled.
C10_Witness ==
    \E x \in Sent, w \in Workers :
        /\ pc[w] = "respond" /\ ~back[w] /\ ~x.back
        /\ DtLess(arrival[w], x.sent)
        /\ DtLeq(x.arrival, reading[w][1])
        /\ reading[w][1] # x.reading[1]
        /\ ret[w] # x.body

=============================================================================
